---- MODULE Spec2Model ----
(***************************************************************************)
(* Model of hy3dgen/shapegen/postprocessors.py: the mesh post-processing   *)
(* operators FaceReducer, FloaterRemover and DegenerateFaceRemover, the    *)
(* two conversions trimesh2pymeshlab / pymeshlab2trimesh and the           *)
(* import_mesh / export_mesh dispatch around them.                         *)
(*                                                                         *)
(* A mesh is a sequence of connected components; a component is a record   *)
(* [v, f, d]: its vertex count, its face count and how many of its faces   *)
(* are degenerate.  A session (pymeshlab.MeshSet) is an identity (sid)     *)
(* into heap; a trimesh object is [scene, geoms].  Files are entries of    *)
(* fs.  Every file-system call, filter call and load is one step that may  *)
(* fail; a call is a process whose pc walks through the function bodies.   *)
(***************************************************************************)
EXTENDS Integers, Sequences, FiniteSets, TLC

\* ---------------------------------------------------------------- bounds
MaxComps == 3      \* longest component list fed to remove_floater alone
MaxPasses == 2     \* how many times remove_floater is applied in a row

\* ------------------------------------------------------ program constants
NbFaceRatioNum == 5          \* nbfaceratio = 0.005 = 5 / 1000
NbFaceRatioDen == 1000
DefaultMaxFacenum == 40000   \* FaceReducer.__call__(max_facenum=40000)

Procs == {1, 2}

\* ------------------------------------------------------------- mesh data
Comp(v, f, d) == [v |-> v, f |-> f, d |-> d]

Blob == Comp(8, 400, 0)
Speck == Comp(3, 1, 1)
Tetra == Comp(4, 4, 0)
MeshA == <<Blob, Speck>>
MeshB == <<Tetra>>

RECURSIVE TotalFaces(_)
TotalFaces(m) == IF m = <<>> THEN 0 ELSE m[1].f + TotalFaces(Tail(m))

RECURSIVE TotalVertices(_)
TotalVertices(m) == IF m = <<>> THEN 0 ELSE m[1].v + TotalVertices(Tail(m))

RECURSIVE Flatten(_)
Flatten(geoms) == IF geoms = <<>> THEN <<>> ELSE geoms[1] \o Flatten(Tail(geoms))

\* pymeshlab.MeshSet.load_new_mesh: the engine's load drops degenerate faces
\* (and the components left without any face).
RECURSIVE EngineLoad(_)
EngineLoad(m) ==
    IF m = <<>> THEN <<>>
    ELSE LET c == m[1]
             rest == EngineLoad(Tail(m))
         IN  IF c.f - c.d > 0
             THEN <<Comp(c.v, c.f - c.d, 0)>> \o rest
             ELSE rest

\* trimesh.load of the .ply artifact: one Trimesh holding the file's mesh.
TrimeshLoad(m) == [scene |-> FALSE, geoms |-> <<m>>]

\* reduce_face: quadric edge collapse towards max_facenum faces.  The engine
\* is abstracted by its contract: components are collapsed in order until
\* the budget is used up, and the face count never grows.
RECURSIVE Decimate(_, _)
Decimate(m, budget) ==
    IF m = <<>> THEN <<>>
    ELSE LET c == m[1]
             keep == IF c.f <= budget THEN c.f ELSE budget
             kd == IF c.d <= keep THEN c.d ELSE keep
         IN  IF keep > 0
             THEN <<Comp(IF c.v <= keep + 2 THEN c.v ELSE keep + 2, keep, kd)>>
                      \o Decimate(Tail(m), budget - keep)
             ELSE Decimate(Tail(m), budget)

reduce_face(m, max_facenum) ==
    IF TotalFaces(m) <= max_facenum THEN m ELSE Decimate(m, max_facenum)

\* compute_selection_by_small_disconnected_components_per_face: a component
\* is selected when its face count is below nbfaceratio of the face count.
IsFloater(c, total) == c.f * NbFaceRatioDen < NbFaceRatioNum * total

\* a buggy variant: only the first small component found is deleted
RECURSIVE DropFirstFloater(_, _)
DropFirstFloater(m, total) ==
    IF m = <<>> THEN <<>>
    ELSE IF IsFloater(m[1], total) THEN Tail(m)
         ELSE <<m[1]>> \o DropFirstFloater(Tail(m), total)

remove_floater_first_only(m) == DropFirstFloater(m, TotalFaces(m))

\* remove_floater: select the small components, transfer the selection to
\* the vertices all of whose faces are selected, delete both.
remove_floater(m) ==
    SelectSeq(m, LAMBDA c : ~IsFloater(c, TotalFaces(m)))

\* ------------------------------------------------------------ file system
TempPath == "temp_mesh.ply"                 \* os.path.join(temp_dir, 'temp_mesh.ply')
NamedPath(p) == IF p = 1 THEN "tmp_1.ply" ELSE "tmp_2.ply"   \* NamedTemporaryFile
Paths == {TempPath} \cup {NamedPath(p) : p \in Procs}

NoFile == [exists |-> FALSE, valid |-> FALSE, mesh |-> <<>>, writer |-> 0]
MeshFile(m, p) == [exists |-> TRUE, valid |-> TRUE, mesh |-> m, writer |-> p]
BrokenFile(p) == [exists |-> TRUE, valid |-> FALSE, mesh |-> <<>>, writer |-> p]

\* ---------------------------------------------------------------- sessions
InputSid(p) == 10 * p
NewSid(p, k) == 10 * p + k + 1
Sids == {10 * p + k : p \in Procs, k \in 0..2}

\* ------------------------------------------------------------------ calls
Operators == {"FaceReducer", "FloaterRemover", "DegenerateFaceRemover"}
Chains == Operators \cup {"RoundTrip"}     \* RoundTrip: import_mesh, then export_mesh

NoTrimesh == [scene |-> FALSE, geoms |-> <<>>]
IdleCall == [op |-> "none", kind |-> "none", scene |-> FALSE, geoms |-> <<>>, max_facenum |-> 0]

VARIABLES
    call,     \* call[p]: the operation invoked and its arguments
    pc,       \* pc[p]: where the call is
    loc,      \* loc[p]: the locals ms / mesh_set, mesh / loaded_mesh, the caught exception
    out,      \* out[p]: what the caller gets: a returned object or an error
    hist,     \* hist[p]: what the call has done so far (observation only)
    fs,       \* the temp directory and the system temp directory
    heap,     \* heap[sid]: the mesh a session holds
    fl        \* the mesh after each pass of remove_floater applied on its own

vars == <<call, pc, loc, out, hist, fs, heap, fl>>


\* ------------------------------------------------------------- the inputs
SceneGeoms(m) == {<<>>, <<m>>, <<m, MeshB>>}

ChainArgs(m) ==
    {[kind |-> k, scene |-> FALSE, geoms |-> <<m>>] : k \in {"path", "value", "session", "trimesh"}}
    \cup {[kind |-> k, scene |-> TRUE, geoms |-> g] : k \in {"glb", "trimesh"}, g \in SceneGeoms(m)}

MkCall(op, a, n) ==
    [op |-> op, kind |-> a.kind, scene |-> a.scene, geoms |-> a.geoms, max_facenum |-> n]

CallsOn(m) ==
    {MkCall("FaceReducer", a, n) : a \in ChainArgs(m), n \in {2, DefaultMaxFacenum}}
    \cup {MkCall(op, a, DefaultMaxFacenum) :
              op \in Chains \ {"FaceReducer"}, a \in ChainArgs(m)}
    \cup {MkCall("pymeshlab2trimesh", a, DefaultMaxFacenum) :
              a \in {x \in ChainArgs(m) : x.kind = "session"}}
    \cup {MkCall("trimesh2pymeshlab", a, DefaultMaxFacenum) :
              a \in {x \in ChainArgs(m) : x.kind = "trimesh"}}

\* the mesh an input denotes (for a scene: its geometries, concatenated)
InputMesh(c) == Flatten(c.geoms)

StartPc(c) ==
    CASE c.op \in Chains -> "import_mesh"
      [] c.op = "pymeshlab2trimesh" -> "p2t_save"
      [] c.op = "trimesh2pymeshlab" -> "t2p_export"
      [] OTHER -> "idle"

StartLoc(p, c) ==
    [ms |-> IF c.op = "pymeshlab2trimesh" THEN InputSid(p) ELSE 0,
     tm |-> IF c.op = "trimesh2pymeshlab"
            THEN [scene |-> c.scene, geoms |-> c.geoms] ELSE NoTrimesh,
     exc |-> "none",
     nalloc |-> 0]

NoHist == [begun |-> <<>>, completed |-> <<>>, created |-> {}, inj |-> {}, xtalk |-> {}]
NoOut == [kind |-> "none", sid |-> 0, mesh |-> <<>>, err |-> "none"]

InitWith(calls) ==
    /\ call = calls
    /\ pc = [p \in Procs |-> StartPc(calls[p])]
    /\ loc = [p \in Procs |-> StartLoc(p, calls[p])]
    /\ out = [p \in Procs |-> NoOut]
    /\ hist = [p \in Procs |-> NoHist]
    /\ fs = [f \in Paths |-> NoFile]
    /\ heap = [s \in Sids |->
                 IF \E p \in Procs : s = InputSid(p) /\ calls[p].kind = "session"
                 THEN InputMesh(calls[CHOOSE p \in Procs : s = InputSid(p)])
                 ELSE <<>>]
    /\ fl = <<>>

\* one call, nothing else running
Init ==
    \E c \in CallsOn(MeshA) \cup CallsOn(MeshB) :
        InitWith([p \in Procs |-> IF p = 1 THEN c ELSE IdleCall])

\* the calls run side by side: every operator on every kind of input, and
\* the two conversions
ConcCallsOn(m) ==
    {c \in CallsOn(m) : /\ c.op # "RoundTrip"
                        /\ c.max_facenum = DefaultMaxFacenum
                        /\ c.geoms = <<m>>
                        /\ c.op \in Operators => c.kind # "trimesh"}

\* two calls running against the same temp directory
InitConc ==
    \E c1 \in ConcCallsOn(MeshA), c2 \in ConcCallsOn(MeshB) :
        InitWith([p \in Procs |-> IF p = 1 THEN c1 ELSE c2])

\* ------------------------------------------------------------ bookkeeping
Begin(h, stage) == [h EXCEPT !.begun = Append(@, stage)]
Complete(h, stage) == [h EXCEPT !.completed = Append(@, stage)]
Injected(h, site) == [h EXCEPT !.inj = @ \cup {site}]
Created(h, path) == [h EXCEPT !.created = @ \cup {path}]
Crossed(h, what) == [h EXCEPT !.xtalk = @ \cup {what}]

\* what touching file f does to another call's artifact
Foreign(f, p) == f.exists /\ f.writer # p

Raise(p, cause) ==
    /\ out' = [out EXCEPT ![p].err = cause]
    /\ pc' = [pc EXCEPT ![p] = "done"]

\* the operation that follows import_mesh in the chain of call c
AfterIngest(c) ==
    CASE c.op = "FaceReducer" -> "reduce_face"
      [] c.op = "FloaterRemover" -> "remove_floater"
      [] c.op = "DegenerateFaceRemover" -> "dfr_mktemp"
      [] OTHER -> "export_mesh"


\* =========================================================== import_mesh
\* import_mesh: a path is loaded (a .glb by trimesh, anything else into a
\* new MeshSet), a Latent2MeshOutput becomes a new MeshSet built from its
\* matrices, a trimesh object goes through trimesh2pymeshlab, and anything
\* else (a MeshSet) is handed back as it is.
import_mesh(p) ==
    /\ pc[p] = "import_mesh"
    /\ LET c == call[p]
           h == Begin(hist[p], "ingest")
           sid == NewSid(p, loc[p].nalloc)
       IN
       \/ /\ c.kind = "path"
          /\ \/ /\ heap' = [heap EXCEPT ![sid] = EngineLoad(InputMesh(c))]
                /\ loc' = [loc EXCEPT ![p].ms = sid, ![p].nalloc = @ + 1]
                /\ hist' = [hist EXCEPT ![p] = Complete(h, "ingest")]
                /\ pc' = [pc EXCEPT ![p] = AfterIngest(c)]
                /\ UNCHANGED out
             \/ /\ hist' = [hist EXCEPT ![p] = Injected(h, "load")]
                /\ Raise(p, "input_load")
                /\ UNCHANGED <<heap, loc>>
       \/ /\ c.kind = "glb"
          /\ \/ /\ loc' = [loc EXCEPT ![p].tm = [scene |-> c.scene, geoms |-> c.geoms]]
                /\ hist' = [hist EXCEPT ![p] = h]
                /\ pc' = [pc EXCEPT ![p] = "t2p_export"]
                /\ UNCHANGED out
             \/ /\ hist' = [hist EXCEPT ![p] = Injected(h, "load")]
                /\ Raise(p, "input_load")
                /\ UNCHANGED loc
          /\ UNCHANGED heap
       \/ /\ c.kind = "value"
          /\ heap' = [heap EXCEPT ![sid] = InputMesh(c)]
          /\ loc' = [loc EXCEPT ![p].ms = sid, ![p].nalloc = @ + 1]
          /\ hist' = [hist EXCEPT ![p] = Complete(h, "ingest")]
          /\ pc' = [pc EXCEPT ![p] = AfterIngest(c)]
          /\ UNCHANGED out
       \/ /\ c.kind = "trimesh"
          /\ loc' = [loc EXCEPT ![p].tm = [scene |-> c.scene, geoms |-> c.geoms]]
          /\ hist' = [hist EXCEPT ![p] = h]
          /\ pc' = [pc EXCEPT ![p] = "t2p_export"]
          /\ UNCHANGED <<heap, out>>
       \/ /\ c.kind = "session"
          /\ loc' = [loc EXCEPT ![p].ms = InputSid(p)]
          /\ hist' = [hist EXCEPT ![p] = Complete(h, "ingest")]
          /\ pc' = [pc EXCEPT ![p] = AfterIngest(c)]
          /\ UNCHANGED <<heap, out>>
    /\ UNCHANGED <<call, fs, fl>>

\* ===================================================== trimesh2pymeshlab
\* "return mesh_set": the caller of the conversion goes on, or the call ends
T2PReturn(p, h) ==
    IF call[p].op = "trimesh2pymeshlab"
    THEN /\ out' = [out EXCEPT ![p].kind = "session", ![p].sid = loc[p].ms]
         /\ pc' = [pc EXCEPT ![p] = "done"]
         /\ hist' = [hist EXCEPT ![p] = h]
    ELSE /\ pc' = [pc EXCEPT ![p] = AfterIngest(call[p])]
         /\ hist' = [hist EXCEPT ![p] = Complete(h, "ingest")]
         /\ UNCHANGED out

\* a scene is summed into one mesh (None when it is empty); mesh.export(temp_path)
trimesh2pymeshlab_export(p) ==
    /\ pc[p] = "t2p_export"
    /\ LET t == loc[p].tm
           h == hist[p]
           f == fs[TempPath]
           hw == IF Foreign(f, p) THEN Crossed(h, "overwrote") ELSE h
       IN
       \/ /\ t.scene /\ t.geoms = <<>>
          /\ loc' = [loc EXCEPT ![p].exc = "none_mesh"]
          /\ pc' = [pc EXCEPT ![p] = "t2p_except"]
          /\ UNCHANGED <<fs, hist>>
       \/ /\ ~(t.scene /\ t.geoms = <<>>)
          /\ \/ /\ fs' = [fs EXCEPT ![TempPath] = MeshFile(Flatten(t.geoms), p)]
                /\ hist' = [hist EXCEPT ![p] = Created(hw, TempPath)]
                /\ pc' = [pc EXCEPT ![p] = "t2p_load"]
                /\ UNCHANGED loc
             \/ /\ \/ /\ fs' = [fs EXCEPT ![TempPath] = BrokenFile(p)]
                      /\ hist' = [hist EXCEPT ![p] = Injected(Created(hw, TempPath), "save")]
                   \/ /\ UNCHANGED fs
                      /\ hist' = [hist EXCEPT ![p] = Injected(h, "save")]
                /\ loc' = [loc EXCEPT ![p].exc = "save"]
                /\ pc' = [pc EXCEPT ![p] = "t2p_except"]
    /\ UNCHANGED <<call, out, heap, fl>>

\* mesh_set = pymeshlab.MeshSet(); mesh_set.load_new_mesh(temp_path)
trimesh2pymeshlab_load(p) ==
    /\ pc[p] = "t2p_load"
    /\ LET f == fs[TempPath]
           h == hist[p]
           sid == NewSid(p, loc[p].nalloc)
       IN
       \/ /\ f.exists /\ f.valid
          /\ \/ /\ heap' = [heap EXCEPT ![sid] = EngineLoad(f.mesh)]
                /\ loc' = [loc EXCEPT ![p].ms = sid, ![p].nalloc = @ + 1]
                /\ hist' = [hist EXCEPT ![p] =
                              IF f.writer # p THEN Crossed(h, "read_other") ELSE h]
                /\ pc' = [pc EXCEPT ![p] = "t2p_cleanup"]
             \/ /\ loc' = [loc EXCEPT ![p].exc = "load"]
                /\ hist' = [hist EXCEPT ![p] = Injected(h, "load")]
                /\ pc' = [pc EXCEPT ![p] = "t2p_except"]
                /\ UNCHANGED heap
       \/ /\ ~(f.exists /\ f.valid)
          /\ loc' = [loc EXCEPT ![p].exc = "load"]
          /\ hist' = [hist EXCEPT ![p] = Crossed(h, "file_lost")]
          /\ pc' = [pc EXCEPT ![p] = "t2p_except"]
          /\ UNCHANGED heap
    /\ UNCHANGED <<call, out, fs, fl>>

\* if os.path.exists(temp_path): ... ; return mesh_set
trimesh2pymeshlab_cleanup(p) ==
    /\ pc[p] = "t2p_cleanup"
    /\ IF fs[TempPath].exists
       THEN /\ pc' = [pc EXCEPT ![p] = "t2p_remove"]
            /\ UNCHANGED <<out, hist>>
       ELSE T2PReturn(p, hist[p])
    /\ UNCHANGED <<call, loc, fs, heap, fl>>

\* os.remove(temp_path) inside the try block; return mesh_set
trimesh2pymeshlab_remove(p) ==
    /\ pc[p] = "t2p_remove"
    /\ LET f == fs[TempPath]
           h == hist[p]
       IN
       \/ /\ f.exists
          /\ \/ /\ fs' = [fs EXCEPT ![TempPath] = NoFile]
                /\ T2PReturn(p, IF Foreign(f, p) THEN Crossed(h, "deleted_other") ELSE h)
                /\ UNCHANGED loc
             \/ /\ loc' = [loc EXCEPT ![p].exc = "delete"]
                /\ hist' = [hist EXCEPT ![p] = Injected(h, "t2p_remove")]
                /\ pc' = [pc EXCEPT ![p] = "t2p_except"]
                /\ UNCHANGED <<fs, out>>
       \/ /\ ~f.exists
          /\ loc' = [loc EXCEPT ![p].exc = "delete"]
          /\ hist' = [hist EXCEPT ![p] = Crossed(h, "file_lost")]
          /\ pc' = [pc EXCEPT ![p] = "t2p_except"]
          /\ UNCHANGED <<fs, out>>
    /\ UNCHANGED <<call, heap, fl>>

\* except Exception as e: if os.path.exists(temp_path): ... ; raise Exception(str(e))
trimesh2pymeshlab_except(p) ==
    /\ pc[p] = "t2p_except"
    /\ IF fs[TempPath].exists
       THEN /\ pc' = [pc EXCEPT ![p] = "t2p_exc_remove"]
            /\ UNCHANGED out
       ELSE Raise(p, loc[p].exc)
    /\ UNCHANGED <<call, loc, hist, fs, heap, fl>>

\* os.remove(temp_path) inside the except block: nothing catches its failure
trimesh2pymeshlab_exc_remove(p) ==
    /\ pc[p] = "t2p_exc_remove"
    /\ LET f == fs[TempPath]
           h == hist[p]
       IN
       \/ /\ f.exists
          /\ \/ /\ fs' = [fs EXCEPT ![TempPath] = NoFile]
                /\ hist' = [hist EXCEPT ![p] =
                              IF Foreign(f, p) THEN Crossed(h, "deleted_other") ELSE h]
                /\ Raise(p, loc[p].exc)
             \/ /\ hist' = [hist EXCEPT ![p] = Injected(h, "t2p_exc_remove")]
                /\ Raise(p, "delete")
                /\ UNCHANGED fs
       \/ /\ ~f.exists
          /\ hist' = [hist EXCEPT ![p] = Crossed(h, "file_lost")]
          /\ Raise(p, "delete")
          /\ UNCHANGED fs
    /\ UNCHANGED <<call, loc, heap, fl>>


\* ================================================ the operation invoked
\* a variant that catches the filter's failure and carries on to export_mesh
reduce_face_call_swallow(p) ==
    /\ pc[p] = "reduce_face"
    /\ LET h == Begin(hist[p], "operate")
           sid == loc[p].ms
       IN
       \/ /\ heap' = [heap EXCEPT ![sid] = reduce_face(@, call[p].max_facenum)]
          /\ hist' = [hist EXCEPT ![p] = Complete(h, "operate")]
       \/ /\ hist' = [hist EXCEPT ![p] = Injected(h, "filter")]
          /\ UNCHANGED heap
    /\ pc' = [pc EXCEPT ![p] = "export_mesh"]
    /\ UNCHANGED <<call, loc, out, fs, fl>>

\* FaceReducer: ms = reduce_face(ms, max_facenum=max_facenum)
reduce_face_call(p) ==
    /\ pc[p] = "reduce_face"
    /\ LET h == Begin(hist[p], "operate")
           sid == loc[p].ms
       IN
       \/ /\ heap' = [heap EXCEPT ![sid] = reduce_face(@, call[p].max_facenum)]
          /\ hist' = [hist EXCEPT ![p] = Complete(h, "operate")]
          /\ pc' = [pc EXCEPT ![p] = "export_mesh"]
          /\ UNCHANGED out
       \/ /\ hist' = [hist EXCEPT ![p] = Injected(h, "filter")]
          /\ Raise(p, "filter")
          /\ UNCHANGED heap
    /\ UNCHANGED <<call, loc, fs, fl>>

\* FloaterRemover: ms = remove_floater(ms)
remove_floater_call(p) ==
    /\ pc[p] = "remove_floater"
    /\ LET h == Begin(hist[p], "operate")
           sid == loc[p].ms
       IN
       \/ /\ heap' = [heap EXCEPT ![sid] = remove_floater(@)]
          /\ hist' = [hist EXCEPT ![p] = Complete(h, "operate")]
          /\ pc' = [pc EXCEPT ![p] = "export_mesh"]
          /\ UNCHANGED out
       \/ /\ hist' = [hist EXCEPT ![p] = Injected(h, "filter")]
          /\ Raise(p, "filter")
          /\ UNCHANGED heap
    /\ UNCHANGED <<call, loc, fs, fl>>

\* ================================================= DegenerateFaceRemover
\* temp_file = tempfile.NamedTemporaryFile(suffix='.ply', delete=False); close
DegenerateFaceRemover_mktemp(p) ==
    /\ pc[p] = "dfr_mktemp"
    /\ fs' = [fs EXCEPT ![NamedPath(p)] = BrokenFile(p)]
    /\ hist' = [hist EXCEPT ![p] = Created(Begin(@, "operate"), NamedPath(p))]
    /\ pc' = [pc EXCEPT ![p] = "dfr_save"]
    /\ UNCHANGED <<call, loc, out, heap, fl>>

\* try: ms.save_current_mesh(temp_file_path)
DegenerateFaceRemover_save(p) ==
    /\ pc[p] = "dfr_save"
    /\ \/ /\ fs' = [fs EXCEPT ![NamedPath(p)] = MeshFile(heap[loc[p].ms], p)]
          /\ pc' = [pc EXCEPT ![p] = "dfr_load"]
          /\ UNCHANGED <<loc, hist>>
       \/ /\ loc' = [loc EXCEPT ![p].exc = "save"]
          /\ hist' = [hist EXCEPT ![p] = Injected(@, "save")]
          /\ pc' = [pc EXCEPT ![p] = "dfr_finally"]
          /\ UNCHANGED fs
    /\ UNCHANGED <<call, out, heap, fl>>

\* ms = pymeshlab.MeshSet(); ms.load_new_mesh(temp_file_path)
DegenerateFaceRemover_load(p) ==
    /\ pc[p] = "dfr_load"
    /\ LET f == fs[NamedPath(p)]
           sid == NewSid(p, loc[p].nalloc)
       IN
       \/ /\ f.exists /\ f.valid
          /\ heap' = [heap EXCEPT ![sid] = EngineLoad(f.mesh)]
          /\ loc' = [loc EXCEPT ![p].ms = sid, ![p].nalloc = @ + 1]
          /\ UNCHANGED hist
       \/ /\ loc' = [loc EXCEPT ![p].exc = "load"]
          /\ hist' = [hist EXCEPT ![p] = Injected(@, "load")]
          /\ UNCHANGED heap
    /\ pc' = [pc EXCEPT ![p] = "dfr_finally"]
    /\ UNCHANGED <<call, out, fs, fl>>

\* leaving the try statement: a pending exception goes on to the caller,
\* otherwise the call goes on to export_mesh
DfrAfterFinally(p, h) ==
    IF loc[p].exc # "none"
    THEN /\ Raise(p, loc[p].exc)
         /\ hist' = [hist EXCEPT ![p] = h]
    ELSE /\ pc' = [pc EXCEPT ![p] = "export_mesh"]
         /\ hist' = [hist EXCEPT ![p] = Complete(h, "operate")]
         /\ UNCHANGED out

\* a variant that forgets the exists/remove and leaves the file behind
DegenerateFaceRemover_finally_leak(p) ==
    /\ pc[p] = "dfr_finally"
    /\ DfrAfterFinally(p, hist[p])
    /\ UNCHANGED <<call, loc, fs, heap, fl>>

\* finally: if os.path.exists(temp_file_path):
DegenerateFaceRemover_finally(p) ==
    /\ pc[p] = "dfr_finally"
    /\ IF fs[NamedPath(p)].exists
       THEN /\ pc' = [pc EXCEPT ![p] = "dfr_remove"]
            /\ UNCHANGED <<out, hist>>
       ELSE DfrAfterFinally(p, hist[p])
    /\ UNCHANGED <<call, loc, fs, heap, fl>>

\* try: os.remove(temp_file_path) except: pass
DegenerateFaceRemover_remove(p) ==
    /\ pc[p] = "dfr_remove"
    /\ \/ /\ fs' = [fs EXCEPT ![NamedPath(p)] = NoFile]
          /\ DfrAfterFinally(p, hist[p])
       \/ /\ UNCHANGED fs
          /\ DfrAfterFinally(p, Injected(hist[p], "dfr_remove"))
    /\ UNCHANGED <<call, loc, heap, fl>>

\* =========================================================== export_mesh
\* Latent2MeshOutput (models/vae.py) is a record of the matrices mesh_v and
\* mesh_f: it has no methods.
Latent2MeshOutputMethods == {}

\* a variant that hands back the processed session whatever the input was
export_mesh_return_output(p) ==
    /\ pc[p] = "export_mesh"
    /\ out' = [out EXCEPT ![p].kind = "session", ![p].sid = loc[p].ms]
    /\ hist' = [hist EXCEPT ![p] = Complete(Begin(@, "export"), "export")]
    /\ pc' = [pc EXCEPT ![p] = "done"]
    /\ UNCHANGED <<call, loc, fs, heap, fl>>

\* a variant without the MeshSet branch: a session input is converted too
export_mesh_always_convert(p) ==
    /\ pc[p] = "export_mesh"
    /\ hist' = [hist EXCEPT ![p] = Begin(@, "export")]
    /\ IF call[p].kind = "value"
       THEN Raise(p, "attribute")
       ELSE /\ pc' = [pc EXCEPT ![p] = "p2t_save"]
            /\ UNCHANGED out
    /\ UNCHANGED <<call, loc, fs, heap, fl>>

\* export_mesh(input, output): a MeshSet input gets the processed session;
\* a Latent2MeshOutput input rebinds output to a NEW, empty
\* Latent2MeshOutput and asks that object for current_mesh(); any other
\* input gets pymeshlab2trimesh(output).
export_mesh(p) ==
    /\ pc[p] = "export_mesh"
    /\ LET c == call[p]
           h == Begin(hist[p], "export")
       IN
       \/ /\ c.kind = "session"
          /\ out' = [out EXCEPT ![p].kind = "session", ![p].sid = loc[p].ms]
          /\ hist' = [hist EXCEPT ![p] = Complete(h, "export")]
          /\ pc' = [pc EXCEPT ![p] = "done"]
       \/ /\ c.kind = "value"
          /\ hist' = [hist EXCEPT ![p] = h]
          /\ IF "current_mesh" \in Latent2MeshOutputMethods
             THEN /\ out' = [out EXCEPT ![p].kind = "value", ![p].mesh = <<>>]
                  /\ pc' = [pc EXCEPT ![p] = "done"]
             ELSE Raise(p, "attribute")
       \/ /\ c.kind \notin {"session", "value"}
          /\ hist' = [hist EXCEPT ![p] = h]
          /\ pc' = [pc EXCEPT ![p] = "p2t_save"]
          /\ UNCHANGED out
    /\ UNCHANGED <<call, loc, fs, heap, fl>>


\* ===================================================== pymeshlab2trimesh
\* "return loaded_mesh": the call ends with a trimesh mesh
P2TReturn(p, h) ==
    /\ out' = [out EXCEPT ![p].kind = "trimesh", ![p].mesh = Flatten(loc[p].tm.geoms)]
    /\ pc' = [pc EXCEPT ![p] = "done"]
    /\ hist' = [hist EXCEPT ![p] =
                  IF call[p].op \in Chains THEN Complete(h, "export") ELSE h]

\* mesh.save_current_mesh(temp_path)
pymeshlab2trimesh_save(p) ==
    /\ pc[p] = "p2t_save"
    /\ LET h == hist[p]
           f == fs[TempPath]
           hw == IF Foreign(f, p) THEN Crossed(h, "overwrote") ELSE h
       IN
       \/ /\ fs' = [fs EXCEPT ![TempPath] = MeshFile(heap[loc[p].ms], p)]
          /\ hist' = [hist EXCEPT ![p] = Created(hw, TempPath)]
          /\ pc' = [pc EXCEPT ![p] = "p2t_load"]
          /\ UNCHANGED loc
       \/ /\ \/ /\ fs' = [fs EXCEPT ![TempPath] = BrokenFile(p)]
                /\ hist' = [hist EXCEPT ![p] = Injected(Created(hw, TempPath), "save")]
             \/ /\ UNCHANGED fs
                /\ hist' = [hist EXCEPT ![p] = Injected(h, "save")]
          /\ loc' = [loc EXCEPT ![p].exc = "save"]
          /\ pc' = [pc EXCEPT ![p] = "p2t_except"]
    /\ UNCHANGED <<call, out, heap, fl>>

\* loaded_mesh = trimesh.load(temp_path); a Scene is concatenated into one mesh
pymeshlab2trimesh_load(p) ==
    /\ pc[p] = "p2t_load"
    /\ LET f == fs[TempPath]
           h == hist[p]
           l == TrimeshLoad(f.mesh)
       IN
       \/ /\ f.exists /\ f.valid
          /\ \/ /\ loc' = [loc EXCEPT ![p].tm =
                             IF l.scene
                             THEN [scene |-> FALSE, geoms |-> <<Flatten(l.geoms)>>]
                             ELSE l]
                /\ hist' = [hist EXCEPT ![p] =
                              IF f.writer # p THEN Crossed(h, "read_other") ELSE h]
                /\ pc' = [pc EXCEPT ![p] = "p2t_cleanup"]
             \/ /\ loc' = [loc EXCEPT ![p].exc = "load"]
                /\ hist' = [hist EXCEPT ![p] = Injected(h, "load")]
                /\ pc' = [pc EXCEPT ![p] = "p2t_except"]
       \/ /\ ~(f.exists /\ f.valid)
          /\ loc' = [loc EXCEPT ![p].exc = "load"]
          /\ hist' = [hist EXCEPT ![p] = Crossed(h, "file_lost")]
          /\ pc' = [pc EXCEPT ![p] = "p2t_except"]
    /\ UNCHANGED <<call, out, fs, heap, fl>>

\* if os.path.exists(temp_path): ... ; return loaded_mesh
pymeshlab2trimesh_cleanup(p) ==
    /\ pc[p] = "p2t_cleanup"
    /\ IF fs[TempPath].exists
       THEN /\ pc' = [pc EXCEPT ![p] = "p2t_remove"]
            /\ UNCHANGED <<out, hist>>
       ELSE P2TReturn(p, hist[p])
    /\ UNCHANGED <<call, loc, fs, heap, fl>>

\* os.remove(temp_path) inside the try block; return loaded_mesh
pymeshlab2trimesh_remove(p) ==
    /\ pc[p] = "p2t_remove"
    /\ LET f == fs[TempPath]
           h == hist[p]
       IN
       \/ /\ f.exists
          /\ \/ /\ fs' = [fs EXCEPT ![TempPath] = NoFile]
                /\ P2TReturn(p, IF Foreign(f, p) THEN Crossed(h, "deleted_other") ELSE h)
                /\ UNCHANGED loc
             \/ /\ loc' = [loc EXCEPT ![p].exc = "delete"]
                /\ hist' = [hist EXCEPT ![p] = Injected(h, "p2t_remove")]
                /\ pc' = [pc EXCEPT ![p] = "p2t_except"]
                /\ UNCHANGED <<fs, out>>
       \/ /\ ~f.exists
          /\ loc' = [loc EXCEPT ![p].exc = "delete"]
          /\ hist' = [hist EXCEPT ![p] = Crossed(h, "file_lost")]
          /\ pc' = [pc EXCEPT ![p] = "p2t_except"]
          /\ UNCHANGED <<fs, out>>
    /\ UNCHANGED <<call, heap, fl>>

\* a variant whose except block re-raises without removing the file
pymeshlab2trimesh_except_leak(p) ==
    /\ pc[p] = "p2t_except"
    /\ Raise(p, loc[p].exc)
    /\ UNCHANGED <<call, loc, hist, fs, heap, fl>>

\* except Exception as e: if os.path.exists(temp_path): ... ; raise Exception(str(e))
pymeshlab2trimesh_except(p) ==
    /\ pc[p] = "p2t_except"
    /\ IF fs[TempPath].exists
       THEN /\ pc' = [pc EXCEPT ![p] = "p2t_exc_remove"]
            /\ UNCHANGED out
       ELSE Raise(p, loc[p].exc)
    /\ UNCHANGED <<call, loc, hist, fs, heap, fl>>

\* os.remove(temp_path) inside the except block: nothing catches its failure
pymeshlab2trimesh_exc_remove(p) ==
    /\ pc[p] = "p2t_exc_remove"
    /\ LET f == fs[TempPath]
           h == hist[p]
       IN
       \/ /\ f.exists
          /\ \/ /\ fs' = [fs EXCEPT ![TempPath] = NoFile]
                /\ hist' = [hist EXCEPT ![p] =
                              IF Foreign(f, p) THEN Crossed(h, "deleted_other") ELSE h]
                /\ Raise(p, loc[p].exc)
             \/ /\ hist' = [hist EXCEPT ![p] = Injected(h, "p2t_exc_remove")]
                /\ Raise(p, "delete")
                /\ UNCHANGED fs
       \/ /\ ~f.exists
          /\ hist' = [hist EXCEPT ![p] = Crossed(h, "file_lost")]
          /\ Raise(p, "delete")
          /\ UNCHANGED fs
    /\ UNCHANGED <<call, loc, heap, fl>>

\* =============================================== remove_floater on its own
FloaterComps == {Comp(3, 1, 0), Comp(5, 3, 0), Comp(101, 199, 0),
                 Comp(102, 200, 0), Comp(502, 1000, 0)}
FloaterInputs == UNION {[1..n -> FloaterComps] : n \in 0..MaxComps}

InitFloater ==
    /\ call = [p \in Procs |-> IdleCall]
    /\ pc = [p \in Procs |-> "idle"]
    /\ loc = [p \in Procs |-> StartLoc(p, IdleCall)]
    /\ out = [p \in Procs |-> NoOut]
    /\ hist = [p \in Procs |-> NoHist]
    /\ fs = [f \in Paths |-> NoFile]
    /\ heap = [s \in Sids |-> <<>>]
    /\ \E m \in FloaterInputs : fl = <<m>>

\* mesh = remove_floater(mesh), once more
ApplyRemoveFloater ==
    /\ fl # <<>>
    /\ Len(fl) <= MaxPasses
    /\ fl' = Append(fl, remove_floater(fl[Len(fl)]))
    /\ UNCHANGED <<call, pc, loc, out, hist, fs, heap>>

\* ========================================================= specifications
Next ==
    \E p \in Procs :
        \/ import_mesh(p)
        \/ trimesh2pymeshlab_export(p)
        \/ trimesh2pymeshlab_load(p)
        \/ trimesh2pymeshlab_cleanup(p)
        \/ trimesh2pymeshlab_remove(p)
        \/ trimesh2pymeshlab_except(p)
        \/ trimesh2pymeshlab_exc_remove(p)
        \/ reduce_face_call(p)
        \/ remove_floater_call(p)
        \/ DegenerateFaceRemover_mktemp(p)
        \/ DegenerateFaceRemover_save(p)
        \/ DegenerateFaceRemover_load(p)
        \/ DegenerateFaceRemover_finally(p)
        \/ DegenerateFaceRemover_remove(p)
        \/ export_mesh(p)
        \/ pymeshlab2trimesh_save(p)
        \/ pymeshlab2trimesh_load(p)
        \/ pymeshlab2trimesh_cleanup(p)
        \/ pymeshlab2trimesh_remove(p)
        \/ pymeshlab2trimesh_except(p)
        \/ pymeshlab2trimesh_exc_remove(p)

Spec == Init /\ [][Next]_vars

SpecConc == InitConc /\ [][Next]_vars

NextFloater == ApplyRemoveFloater

SpecFloater == InitFloater /\ [][NextFloater]_vars


\* ================================================================ claims
DeleteSites == {"t2p_remove", "t2p_exc_remove", "p2t_remove", "p2t_exc_remove", "dfr_remove"}
Stages == <<"ingest", "operate", "export">>
IsPrefix(s, t) == Len(s) <= Len(t) /\ SubSeq(t, 1, Len(s)) = s
Has(s, x) == \E i \in 1..Len(s) : s[i] = x
Done(p) == pc[p] = "done"
Leftovers(p) == {f \in hist[p].created : fs[f].exists}

\* C1: when a call running alone returns or raises, and the only failures
\* were at save, load or filter steps (no os.remove failed), none of the
\* files the call created exists any more: neither temp_mesh.ply nor the
\* operator's own named temporary file.
C1_NoArtifactLeft ==
    \A p \in Procs :
        (Done(p) /\ hist[p].inj \cap DeleteSites = {}) => Leftovers(p) = {}

\* a DegenerateFaceRemover call that created both kinds of artifact and
\* then failed at the reload inside pymeshlab2trimesh
C1_Witness ==
    \E p \in Procs :
        /\ Done(p)
        /\ call[p].op = "DegenerateFaceRemover"
        /\ hist[p].created = {TempPath, NamedPath(p)}
        /\ hist[p].inj = {"load"}
        /\ out[p].err = "load"
        /\ Leftovers(p) = {}


\* C2 (as stated): whenever an operator call returns, a path input or a
\* session input has produced a session and a value-mesh input a value-mesh.
C2_OutputMirrorsInput ==
    \A p \in Procs :
        (Done(p) /\ call[p].op \in Operators /\ out[p].kind # "none") =>
            /\ call[p].kind \in {"path", "glb", "session"} => out[p].kind = "session"
            /\ call[p].kind = "value" => out[p].kind = "value"

\* C2 (amended): whenever an operator call returns, a session input has
\* produced a session, a path input has produced a trimesh mesh (the
\* processed session reloaded by pymeshlab2trimesh), and a value-mesh input
\* has produced nothing of another family than a value-mesh.
C2_OutputFamily ==
    \A p \in Procs :
        (Done(p) /\ call[p].op \in Operators /\ out[p].kind # "none") =>
            /\ call[p].kind = "session" => out[p].kind = "session"
            /\ call[p].kind \in {"path", "glb"} => out[p].kind = "trimesh"
            /\ call[p].kind = "value" => out[p].kind = "value"

\* an operator call on a path that returned
C2_Witness ==
    \E p \in Procs :
        /\ Done(p)
        /\ call[p].op \in Operators
        /\ call[p].kind = "path"
        /\ out[p].err = "none"
        /\ out[p].kind = "trimesh"

\* C3: once export_mesh has run for a value-mesh input, the call has
\* returned a value-mesh holding the matrices of the original input.
C3_ValueExportReturnsOriginal ==
    \A p \in Procs :
        (Done(p) /\ call[p].kind = "value" /\ Has(hist[p].begun, "export")) =>
            /\ out[p].kind = "value"
            /\ out[p].mesh = InputMesh(call[p])

\* C4: two calls running side by side, with no failure of a save, load,
\* filter or remove forced on either, never read, overwrite or delete each
\* other's artifact, never find their own artifact gone, and so never fail.
C4_CallsIsolated ==
    (\A q \in Procs : hist[q].inj = {}) =>
        \A p \in Procs :
            /\ hist[p].xtalk = {}
            /\ out[p].err \in {"none", "attribute"}

\* C5: a failure of os.remove never reaches the caller: after a failed save
\* or reload the caller gets that error, and otherwise the call does not
\* fail because of the deletion.
C5_DeleteFailureSwallowed ==
    \A p \in Procs :
        Done(p) =>
            /\ loc[p].exc \in {"save", "load"} => out[p].err = loc[p].exc
            /\ out[p].err # "delete"

\* C6: import_mesh followed by export_mesh on a value-mesh, nothing failing
\* underneath, completes and gives back a value-mesh with the same vertex
\* count, face count and components.
C6_RoundTripIdentity ==
    \A p \in Procs :
        (Done(p) /\ call[p].op = "RoundTrip" /\ call[p].kind = "value"
                 /\ hist[p].inj = {}) =>
            /\ out[p].err = "none"
            /\ out[p].kind = "value"
            /\ TotalVertices(out[p].mesh) = TotalVertices(InputMesh(call[p]))
            /\ TotalFaces(out[p].mesh) = TotalFaces(InputMesh(call[p]))
            /\ out[p].mesh = InputMesh(call[p])

\* C7: an operator call runs ingest, operate, export in this order, each at
\* most once; it ends either with all three completed and a result and no
\* error, or with an error, no result, and the failed stage the last one
\* that was begun.
C7_AllOrNothing ==
    \A p \in Procs :
        call[p].op \in Operators =>
            /\ IsPrefix(hist[p].begun, Stages)
            /\ IsPrefix(hist[p].completed, hist[p].begun)
            /\ Done(p) =>
                \/ /\ out[p].err = "none"
                   /\ out[p].kind # "none"
                   /\ hist[p].completed = Stages
                \/ /\ out[p].err # "none"
                   /\ out[p].kind = "none"
                   /\ Len(hist[p].begun) = Len(hist[p].completed) + 1

\* an operator call whose operation failed: export never began
C7_Witness ==
    \E p \in Procs :
        /\ Done(p)
        /\ call[p].op \in Operators
        /\ out[p].err = "filter"
        /\ hist[p].begun = <<"ingest", "operate">>
        /\ hist[p].completed = <<"ingest">>

\* C8: every pass of remove_floater after the first leaves the mesh as the
\* first pass left it.
C8_FloaterIdempotent ==
    \A i \in 2..(Len(fl) - 1) : fl[i + 1] = fl[i]

\* two passes done, the first of which removed a component and kept another
C8_Witness ==
    /\ Len(fl) >= 3
    /\ fl[2] # fl[1]
    /\ fl[2] # <<>>

\* C9: for a session input import_mesh hands back that very session and
\* export_mesh the processed session; a FaceReducer or FloaterRemover call
\* on a session creates no file and no session, leaves the file system as
\* it was, and returns the input session with the operation applied to it.
C9_SessionPassThrough ==
    \A p \in Procs :
        (call[p].op \in {"FaceReducer", "FloaterRemover", "RoundTrip"}
            /\ call[p].kind = "session") =>
            /\ hist[p].created = {}
            /\ \A f \in Paths : ~fs[f].exists
            /\ loc[p].nalloc = 0
            /\ pc[p] \in {"reduce_face", "remove_floater", "export_mesh"}
                   => loc[p].ms = InputSid(p)
            /\ (Done(p) /\ out[p].err = "none") =>
                /\ out[p].kind = "session"
                /\ out[p].sid = InputSid(p)
                /\ heap[InputSid(p)] =
                     CASE call[p].op = "FaceReducer" ->
                              reduce_face(InputMesh(call[p]), call[p].max_facenum)
                       [] call[p].op = "FloaterRemover" ->
                              remove_floater(InputMesh(call[p]))
                       [] OTHER -> InputMesh(call[p])

\* a FaceReducer call on a session that returned it, decimated in place
C9_Witness ==
    \E p \in Procs :
        /\ Done(p)
        /\ call[p].op = "FaceReducer"
        /\ call[p].kind = "session"
        /\ out[p].sid = InputSid(p)
        /\ heap[InputSid(p)] # InputMesh(call[p])

====
